---- MODULE Spec2Model ----
(***************************************************************************)
(* Slug identifier subsystem of the label catalog backend (relational      *)
(* variant, src/migrate-release-slugs.js lines 500-1149).                  *)
(*                                                                         *)
(* Strings are sequences of one-character strings, so that slug            *)
(* generation, the "-<counter>" suffix and Date.now().toString() are       *)
(* computed character by character.  Every `await pool.query(...)` of a    *)
(* handler is one atomic step of the request that issues it; the           *)
(* JavaScript between two awaits belongs to the step that precedes it.     *)
(***************************************************************************)
EXTENDS Integers, Sequences, FiniteSets, TLC

VARIABLES artists, releases, clock, reqs

vars == <<artists, releases, clock, reqs>>

\* ------------------------------------------------------------------ bounds
\* Largest value of Date.now() in each specification (the clock starts at 1)
MaxClock == 3
MaxClockSeq == 2
MaxClockRace == 2
\* Longest name/title the normalizer is fed in the specification of its inputs
MaxLen == 4
\* Most rows of a table that predates the slug column
MaxRows == 3
MaxList == 2

\* Two connections: the overlap of two requests is what the race conditions of
\* the subsystem are about; a specification of non-overlapping requests uses one.
Slots == {1, 2}

\* ----------------------------------------------------------------- strings
Empty == <<>>

UpperChars == <<"A","B","C","D","E","F","G","H","I","J","K","L","M",
                "N","O","P","Q","R","S","T","U","V","W","X","Y","Z">>
LowerChars == <<"a","b","c","d","e","f","g","h","i","j","k","l","m",
                "n","o","p","q","r","s","t","u","v","w","x","y","z">>
DigitChars == <<"0","1","2","3","4","5","6","7","8","9">>

Range(f) == {f[i] : i \in DOMAIN f}

\* \w of a JavaScript regular expression: [A-Za-z0-9_]
IsWordChar(c) == c \in Range(UpperChars) \cup Range(LowerChars) \cup Range(DigitChars) \cup {"_"}
\* \s of a JavaScript regular expression (the ASCII part)
IsSpaceChar(c) == c \in {" ", "\t", "\n"}

\* String.prototype.toLowerCase, one character
LowerOf(c) ==
    IF c \in Range(UpperChars)
    THEN LowerChars[CHOOSE i \in DOMAIN UpperChars : UpperChars[i] = c]
    ELSE c

toLowerCase(s) == [i \in DOMAIN s |-> LowerOf(s[i])]

RECURSIVE TrimLeft(_)
TrimLeft(s) == IF s # <<>> /\ IsSpaceChar(Head(s)) THEN TrimLeft(Tail(s)) ELSE s

RECURSIVE TrimRight(_)
TrimRight(s) ==
    IF s # <<>> /\ IsSpaceChar(s[Len(s)]) THEN TrimRight(SubSeq(s, 1, Len(s) - 1)) ELSE s

\* String.prototype.trim
trim(s) == TrimRight(TrimLeft(s))

\* .replace(/[^\w\s-]/g, '')
RemoveSpecial(s) == SelectSeq(s, LAMBDA c : IsWordChar(c) \/ IsSpaceChar(c) \/ c = "-")

\* .replace(/\s+/g, '-'): every maximal run of whitespace becomes one hyphen
RECURSIVE SpacesToHyphen(_)
SpacesToHyphen(s) ==
    IF s = <<>> THEN <<>>
    ELSE IF IsSpaceChar(Head(s))
         THEN <<"-">> \o SpacesToHyphen(TrimLeft(s))
         ELSE <<Head(s)>> \o SpacesToHyphen(Tail(s))

\* .replace(/-+/g, '-'): every maximal run of hyphens becomes one hyphen
RECURSIVE CollapseHyphens(_)
CollapseHyphens(s) ==
    IF s = <<>> THEN <<>>
    ELSE IF Head(s) = "-" /\ Len(s) > 1 /\ s[2] = "-"
         THEN CollapseHyphens(Tail(s))
         ELSE <<Head(s)>> \o CollapseHyphens(Tail(s))

\* .replace(/^-|-$/g, ''): one leading and one trailing hyphen are removed
StripEdgeHyphens(s) ==
    LET a == IF s # <<>> /\ Head(s) = "-" THEN Tail(s) ELSE s
    IN  IF a # <<>> /\ a[Len(a)] = "-" THEN SubSeq(a, 1, Len(a) - 1) ELSE a

\* Mutant: the edge hyphens are removed before the runs of hyphens are collapsed
generateSlug_StripFirst(name) ==
    IF name = <<>> THEN <<>>
    ELSE CollapseHyphens(StripEdgeHyphens(SpacesToHyphen(RemoveSpecial(trim(toLowerCase(name))))))

generateSlug(name) ==
    IF name = <<>> THEN <<>>
    ELSE StripEdgeHyphens(CollapseHyphens(SpacesToHyphen(RemoveSpecial(trim(toLowerCase(name))))))

generateReleaseSlug(title) ==
    IF title = <<>> THEN <<>>
    ELSE StripEdgeHyphens(CollapseHyphens(SpacesToHyphen(RemoveSpecial(trim(toLowerCase(title))))))

\* Number.prototype.toString (decimal), used by Date.now().toString() and `${counter}`
RECURSIVE toString(_)
toString(n) ==
    IF n < 10 THEN <<DigitChars[n + 1]>>
    ELSE toString(n \div 10) \o <<DigitChars[(n % 10) + 1]>>

\* Mutant: the counter is incremented before it is used
Suffixed_OffByOne(slug, counter) == slug \o <<"-">> \o toString(counter + 1)

\* `${slug}-${counter}`
Suffixed(slug, counter) == slug \o <<"-">> \o toString(counter)


\* ------------------------------------------------------------------- store
\* A row of table artists (id TEXT PRIMARY KEY, slug TEXT UNIQUE, name TEXT)
ArtistRow(e) == [id |-> e.id, slug |-> e.slug, name |-> e.name]
\* A row of table releases (id TEXT PRIMARY KEY, slug TEXT UNIQUE, "artistId", title)
ReleaseRow(e) == [id |-> e.id, slug |-> e.slug, artistId |-> e.artistId, title |-> e.name]

\* The JavaScript object a handler works on (newArtist, artist, newRelease, release);
\* for a release the field name holds the title.  Empty stands for '', null and
\* undefined alike: the code only ever tests these with || and if (...).
NoEnt == [id |-> Empty, slug |-> Empty, name |-> Empty, artistId |-> Empty]
ArtistObj(row) == [id |-> row.id, slug |-> row.slug, name |-> row.name, artistId |-> Empty]
ReleaseObj(row) == [id |-> row.id, slug |-> row.slug, name |-> row.title, artistId |-> row.artistId]

\* req.body.artistId === undefined (the field is missing from the form)
Undefined == <<"undefined">>

\* Mutant: the column is declared without UNIQUE
SlugUnique_NotDeclared(rows, row) == FALSE

\* The UNIQUE constraint of column slug: another row already holds the value.
\* '' is a value like any other (only NULL is exempt, and the code never writes NULL).
SlugUniqueViolated(rows, row) == \E r \in rows : r.id # row.id /\ r.slug = row.slug

\* INSERT ... ON CONFLICT (id) DO UPDATE SET ...: the row replaces the one with its id
InsertOnConflictUpdate(rows, row) == {r \in rows : r.id # row.id} \cup {row}

\* Mutant: the query forgets `AND id != $2`
SelectSlug_NoExclude(rows, uniqueSlug, excludeId) == {r \in rows : r.slug = uniqueSlug}

\* SELECT id FROM <table> WHERE slug = $1 AND id != $2  (excludeId is never falsy here:
\* every caller passes the entity's id, a non-empty string)
SelectSlugExcluding(rows, uniqueSlug, excludeId) ==
    {r \in rows : r.slug = uniqueSlug /\ r.id # excludeId}

\* Mutant: the lookup matches a row without slug by its id
SelectBySlug_Coalesce(rows, identifier) ==
    {r \in rows : (IF r.slug # Empty THEN r.slug ELSE r.id) = identifier}

\* SELECT * FROM <table> WHERE slug = $1
SelectBySlug(rows, identifier) == {r \in rows : r.slug = identifier}

\* Mutant: the query accepts the slug as well
SelectById_OrSlug(rows, id) == {r \in rows : r.id = id \/ r.slug = id}

\* SELECT * FROM <table> WHERE id = $1
SelectById(rows, id) == {r \in rows : r.id = id}

\* SELECT COUNT(*) FROM releases WHERE "artistId" = $1
CountReleasesOf(rows, id) == Cardinality({r \in rows : r.artistId = id})

\* DELETE FROM <table> WHERE id = $1
DeleteById(rows, id) == {r \in rows : r.id # id}

\* ---------------------------------------------------------------- requests
IdleReq ==
    [kind |-> "none", pc |-> "idle", param |-> Empty, bodyName |-> Empty,
     bodyArtistId |-> Undefined, ent |-> NoEnt, slug |-> Empty, uniqueSlug |-> Empty,
     counter |-> 0, status |-> 0, err |-> "", raced |-> FALSE,
     todo |-> {}, run |-> 0, list |-> {}]

Free(s) == reqs[s].pc \in {"idle", "done"}

\* Date.now().toString()
DateNowString == toString(clock)

\* The handler returns: its locals are gone, the response (status and, for a
\* successful save or GET, the entity sent by res.json) is what remains of it.
Respond(r, code) ==
    [IdleReq EXCEPT !.kind = r.kind, !.pc = "done", !.status = code, !.param = r.param,
                    !.raced = r.raced]

RespondJson(r, obj) == [Respond(r, 200) EXCEPT !.ent = obj]

\* Mutant: the slug is derived from the name/title on every save
EnterSave_Regenerate(r, ent, generated) ==
    [r EXCEPT !.ent = ent, !.slug = generated, !.uniqueSlug = generated, !.counter = 1,
              !.pc = IF generated # Empty THEN "unique" ELSE "insert"]

\* Mutant: a missing slug is not generated
EnterSave_NoGenerate(r, ent, generated) ==
    [r EXCEPT !.ent = ent, !.slug = ent.slug, !.uniqueSlug = ent.slug, !.counter = 1,
              !.pc = IF ent.slug # Empty THEN "unique" ELSE "insert"]

\* saveArtist / saveRelease up to the first await: `let slug = x.slug || generate(x.name);
\* if (slug) slug = await ensureUnique(slug, x.id)` enters the loop with
\* uniqueSlug = slug, counter = 1; an empty slug goes straight to the INSERT.
EnterSave(r, ent, generated) ==
    LET slug == IF ent.slug # Empty THEN ent.slug ELSE generated
    IN  [r EXCEPT !.ent = ent, !.slug = slug, !.uniqueSlug = slug, !.counter = 1,
                  !.pc = IF slug # Empty THEN "unique" ELSE "insert"]

\* Two saves race when both have finished their uniqueness loop with the same slug
\* for different ids and neither has written yet (history flag, read by no handler).
Pending(t, kind, uniqueSlug, id) ==
    /\ reqs[t].kind \in kind
    /\ reqs[t].pc = "insert"
    /\ reqs[t].uniqueSlug = uniqueSlug
    /\ reqs[t].ent.id # id

\* Mutant: the loop returns its candidate without looking at the query's result
UniqueLoopStep_NoQuery(s, rows, kinds) ==
    reqs' = [reqs EXCEPT ![s] = [reqs[s] EXCEPT !.pc = "insert"]]

\* Mutant: the loop forgets counter++
UniqueLoopStep_NoIncrement(s, rows, kinds) ==
    LET r == reqs[s]
    IN  IF SelectSlugExcluding(rows, r.uniqueSlug, r.ent.id) = {}
        THEN reqs' = [reqs EXCEPT ![s] = [r EXCEPT !.pc = "insert"]]
        ELSE reqs' = [reqs EXCEPT ![s] = [r EXCEPT !.uniqueSlug = Suffixed(r.slug, r.counter)]]

\* One iteration of the while (true) loop of ensureUniqueSlug / ensureUniqueReleaseSlug
UniqueLoopStep(s, rows, kinds) ==
    LET r == reqs[s]
        result == SelectSlugExcluding(rows, r.uniqueSlug, r.ent.id)
    IN  IF result = {}
        THEN LET peers == {t \in Slots \ {s} : Pending(t, kinds, r.uniqueSlug, r.ent.id)}
             IN  reqs' = [t \in Slots |->
                            IF t = s THEN [r EXCEPT !.pc = "insert", !.raced = (peers # {})]
                            ELSE IF t \in peers THEN [reqs[t] EXCEPT !.raced = TRUE]
                            ELSE reqs[t]]
        ELSE reqs' = [reqs EXCEPT ![s] = [r EXCEPT !.uniqueSlug = Suffixed(r.slug, r.counter),
                                                   !.counter = r.counter + 1]]

\* The INSERT of saveArtist / saveRelease and what follows it in the handler:
\* `x.slug = slug; res.json(x)`, or the catch block's 500.
SaveOutcome(r, rows, row) ==
    IF SlugUniqueViolated(rows, row)
    THEN [rows |-> rows, req |-> [Respond(r, 500) EXCEPT !.err = "unique_violation"]]
    ELSE [rows |-> InsertOnConflictUpdate(rows, row),
          req |-> RespondJson(r, [r.ent EXCEPT !.slug = r.uniqueSlug])]

\* ----------------------------------------------------------------- artists
\* POST /api/artists up to the first await of saveArtist
PostArtist(s, name) ==
    /\ Free(s)
    /\ LET newArtist == [NoEnt EXCEPT !.id = DateNowString, !.name = name]
       IN  reqs' = [reqs EXCEPT ![s] =
                EnterSave([IdleReq EXCEPT !.kind = "POST_artist", !.bodyName = name],
                          newArtist, generateSlug(name))]
    /\ UNCHANGED <<artists, releases, clock>>

\* PUT /api/artists/:id up to its first await
PutArtist(s, id, name) ==
    /\ Free(s)
    /\ reqs' = [reqs EXCEPT ![s] =
            [IdleReq EXCEPT !.kind = "PUT_artist", !.pc = "select", !.param = id,
                            !.bodyName = name]]
    /\ UNCHANGED <<artists, releases, clock>>

\* PUT /api/artists/:id: the SELECT, the field updates, the slug reset and the
\* synchronous start of saveArtist
PutArtistSelect(s) ==
    LET r == reqs[s]
        result == SelectById(artists, r.param)
    IN  /\ r.kind = "PUT_artist" /\ r.pc = "select"
        /\ IF result = {}
           THEN reqs' = [reqs EXCEPT ![s] = Respond(r, 404)]
           ELSE LET row == CHOOSE x \in result : TRUE
                    a1 == [ArtistObj(row) EXCEPT
                              !.name = IF r.bodyName # Empty THEN r.bodyName ELSE row.name]
                    \* `if (req.body.name && req.body.name !== artist.name)` is evaluated
                    \* after artist.name has been overwritten
                    a2 == IF r.bodyName # Empty /\ r.bodyName # a1.name
                          THEN [a1 EXCEPT !.slug = Empty] ELSE a1
                IN  reqs' = [reqs EXCEPT ![s] = EnterSave(r, a2, generateSlug(a2.name))]
        /\ UNCHANGED <<artists, releases, clock>>

\* ensureUniqueSlug: one query of the loop
ensureUniqueSlug(s) ==
    /\ reqs[s].kind \in {"POST_artist", "PUT_artist"} /\ reqs[s].pc = "unique"
    /\ UniqueLoopStep(s, artists, {"POST_artist", "PUT_artist"})
    /\ UNCHANGED <<artists, releases, clock>>

\* saveArtist: the INSERT and the response
saveArtist(s) ==
    LET r == reqs[s]
        out == SaveOutcome(r, artists, ArtistRow([r.ent EXCEPT !.slug = r.uniqueSlug]))
    IN  /\ r.kind \in {"POST_artist", "PUT_artist"} /\ r.pc = "insert"
        /\ artists' = out.rows
        /\ reqs' = [reqs EXCEPT ![s] = out.req]
        /\ UNCHANGED <<releases, clock>>

\* DELETE /api/artists/:id up to its first await
DeleteArtist(s, id) ==
    /\ Free(s)
    /\ reqs' = [reqs EXCEPT ![s] =
            [IdleReq EXCEPT !.kind = "DELETE_artist", !.pc = "count", !.param = id]]
    /\ UNCHANGED <<artists, releases, clock>>

\* Mutant: the guard lets every delete through
GuardBlocks_Never(rows, id) == FALSE

\* Mutant: the guard tolerates one release
GuardBlocks_OffByOne(rows, id) == CountReleasesOf(rows, id) > 1

\* The guard of DELETE /api/artists/:id: releaseCount > 0 answers 400
GuardBlocks(rows, id) == CountReleasesOf(rows, id) > 0

DeleteArtistCount(s) ==
    LET r == reqs[s]
    IN  /\ r.kind = "DELETE_artist" /\ r.pc = "count"
        /\ reqs' = [reqs EXCEPT ![s] =
                IF GuardBlocks(releases, r.param) THEN Respond(r, 400)
                ELSE [r EXCEPT !.pc = "delete"]]
        /\ UNCHANGED <<artists, releases, clock>>

\* deleteArtist / deleteRelease and the response: result.rowCount > 0, else 404
DeleteOutcome(r, rows) ==
    [rows |-> DeleteById(rows, r.param),
     req |-> Respond(r, IF SelectById(rows, r.param) # {} THEN 200 ELSE 404)]

\* Mutant: the delete re-validates the guard in the same statement
deleteArtist_Revalidate(s) ==
    LET r == reqs[s]
        out == DeleteOutcome(r, artists)
    IN  /\ r.kind = "DELETE_artist" /\ r.pc = "delete"
        /\ IF CountReleasesOf(releases, r.param) > 0
           THEN artists' = artists /\ reqs' = [reqs EXCEPT ![s] = Respond(r, 400)]
           ELSE artists' = out.rows /\ reqs' = [reqs EXCEPT ![s] = out.req]
        /\ UNCHANGED <<releases, clock>>

\* The DELETE runs without looking at releases again; the history flag raced
\* records that a release naming the artist was committed after the count.
deleteArtist(s) ==
    LET r == reqs[s]
        out == DeleteOutcome(r, artists)
    IN  /\ r.kind = "DELETE_artist" /\ r.pc = "delete"
        /\ artists' = out.rows
        /\ reqs' = [reqs EXCEPT ![s] =
                [out.req EXCEPT !.raced = (CountReleasesOf(releases, r.param) > 0)]]
        /\ UNCHANGED <<releases, clock>>

\* GET /api/<collection>/:identifier up to its first await
GetStart(s, kind, identifier) ==
    /\ Free(s)
    /\ reqs' = [reqs EXCEPT ![s] =
            [IdleReq EXCEPT !.kind = kind, !.pc = "byslug", !.param = identifier]]
    /\ UNCHANGED <<artists, releases, clock>>

GetArtist(s, identifier) == GetStart(s, "GET_artist", identifier)

ArtistKinds == {"POST_artist", "PUT_artist", "DELETE_artist", "GET_artist"}

\* The object pg builds from a row of the table the handler queried
ObjOf(r, row) == IF r.kind \in ArtistKinds THEN ArtistObj(row) ELSE ReleaseObj(row)

\* `result.rows[0]`: any one of the rows the query returned
FirstRow(result) == CHOOSE x \in result : TRUE

\* First query of the GET handlers: by slug; a hit is the answer
GetBySlugStep(r, rows) ==
    LET result == SelectBySlug(rows, r.param)
    IN  IF result # {} THEN RespondJson(r, ObjOf(r, FirstRow(result)))
        ELSE [r EXCEPT !.pc = "byid"]

\* Mutant: the retry by primary identifier finds nothing
GetByIdStep_NotFound(r, rows) == Respond(r, 404)

\* Second query of the GET handlers: by id; no row answers 404
GetByIdStep(r, rows) ==
    LET result == SelectById(rows, r.param)
    IN  IF result # {} THEN RespondJson(r, ObjOf(r, FirstRow(result)))
        ELSE Respond(r, 404)

\* Mutant: the handler tries the primary identifier first
GetArtistBySlug_IdFirst(s) ==
    /\ reqs[s].kind = "GET_artist" /\ reqs[s].pc = "byslug"
    /\ LET result == SelectById(artists, reqs[s].param)
       IN  reqs' = [reqs EXCEPT ![s] =
                IF result # {} THEN RespondJson(reqs[s], ArtistObj(FirstRow(result)))
                ELSE [reqs[s] EXCEPT !.pc = "byid"]]
    /\ UNCHANGED <<artists, releases, clock>>

GetArtistBySlug(s) ==
    /\ reqs[s].kind = "GET_artist" /\ reqs[s].pc = "byslug"
    /\ reqs' = [reqs EXCEPT ![s] = GetBySlugStep(reqs[s], artists)]
    /\ UNCHANGED <<artists, releases, clock>>

\* Mutant: no retry by primary identifier
GetArtistById_NoFallback(s) ==
    /\ reqs[s].kind = "GET_artist" /\ reqs[s].pc = "byid"
    /\ reqs' = [reqs EXCEPT ![s] = Respond(reqs[s], 404)]
    /\ UNCHANGED <<artists, releases, clock>>

GetArtistById(s) ==
    /\ reqs[s].kind = "GET_artist" /\ reqs[s].pc = "byid"
    /\ reqs' = [reqs EXCEPT ![s] = GetByIdStep(reqs[s], artists)]
    /\ UNCHANGED <<artists, releases, clock>>


\* ---------------------------------------------------------------- releases
\* POST /api/releases up to the first await of saveRelease
PostRelease(s, title, artistId) ==
    /\ Free(s)
    /\ LET newRelease == [NoEnt EXCEPT !.id = DateNowString, !.name = title,
                                       !.artistId = IF artistId = Undefined THEN Empty
                                                    ELSE artistId]
       IN  reqs' = [reqs EXCEPT ![s] =
                EnterSave([IdleReq EXCEPT !.kind = "POST_release", !.bodyName = title,
                                          !.bodyArtistId = artistId],
                          newRelease, generateReleaseSlug(title))]
    /\ UNCHANGED <<artists, releases, clock>>

\* PUT /api/releases/:id up to its first await
PutRelease(s, id, title, artistId) ==
    /\ Free(s)
    /\ reqs' = [reqs EXCEPT ![s] =
            [IdleReq EXCEPT !.kind = "PUT_release", !.pc = "select", !.param = id,
                            !.bodyName = title, !.bodyArtistId = artistId]]
    /\ UNCHANGED <<artists, releases, clock>>

\* Mutant: the handler clears the slug when the title changes
PutReleaseSelect_ClearsSlug(s) ==
    LET r == reqs[s]
        result == SelectById(releases, r.param)
    IN  /\ r.kind = "PUT_release" /\ r.pc = "select"
        /\ IF result = {}
           THEN reqs' = [reqs EXCEPT ![s] = Respond(r, 404)]
           ELSE LET row == CHOOSE x \in result : TRUE
                    release == [ReleaseObj(row) EXCEPT
                        !.name = IF r.bodyName # Empty THEN r.bodyName ELSE row.title,
                        !.slug = IF r.bodyName # Empty /\ r.bodyName # row.title
                                 THEN Empty ELSE row.slug]
                IN  reqs' = [reqs EXCEPT ![s] =
                        EnterSave(r, release, generateReleaseSlug(release.name))]
        /\ UNCHANGED <<artists, releases, clock>>

\* PUT /api/releases/:id: the SELECT, the field updates and the synchronous start
\* of saveRelease (the slug of the fetched row is kept when it is not empty)
PutReleaseSelect(s) ==
    LET r == reqs[s]
        result == SelectById(releases, r.param)
    IN  /\ r.kind = "PUT_release" /\ r.pc = "select"
        /\ IF result = {}
           THEN reqs' = [reqs EXCEPT ![s] = Respond(r, 404)]
           ELSE LET row == CHOOSE x \in result : TRUE
                    release == [ReleaseObj(row) EXCEPT
                        !.artistId = IF r.bodyArtistId # Undefined THEN r.bodyArtistId
                                     ELSE row.artistId,
                        !.name = IF r.bodyName # Empty THEN r.bodyName ELSE row.title]
                IN  reqs' = [reqs EXCEPT ![s] =
                        EnterSave(r, release, generateReleaseSlug(release.name))]
        /\ UNCHANGED <<artists, releases, clock>>

\* Mutant: the loop looks for the slug in both tables
ensureUniqueReleaseSlug_AnyTable(s) ==
    /\ reqs[s].kind \in {"POST_release", "PUT_release"} /\ reqs[s].pc = "unique"
    /\ UniqueLoopStep(s, releases \cup artists, {"POST_release", "PUT_release"})
    /\ UNCHANGED <<artists, releases, clock>>

\* ensureUniqueReleaseSlug: one query of the loop
ensureUniqueReleaseSlug(s) ==
    /\ reqs[s].kind \in {"POST_release", "PUT_release"} /\ reqs[s].pc = "unique"
    /\ UniqueLoopStep(s, releases, {"POST_release", "PUT_release"})
    /\ UNCHANGED <<artists, releases, clock>>

\* saveRelease: the INSERT and the response
saveRelease(s) ==
    LET r == reqs[s]
        out == SaveOutcome(r, releases, ReleaseRow([r.ent EXCEPT !.slug = r.uniqueSlug]))
    IN  /\ r.kind \in {"POST_release", "PUT_release"} /\ r.pc = "insert"
        /\ releases' = out.rows
        /\ reqs' = [reqs EXCEPT ![s] = out.req]
        /\ UNCHANGED <<artists, clock>>

\* DELETE /api/releases/:id up to its first await
DeleteRelease(s, id) ==
    /\ Free(s)
    /\ reqs' = [reqs EXCEPT ![s] =
            [IdleReq EXCEPT !.kind = "DELETE_release", !.pc = "delete", !.param = id]]
    /\ UNCHANGED <<artists, releases, clock>>

\* deleteRelease and the response
deleteRelease(s) ==
    LET r == reqs[s]
        out == DeleteOutcome(r, releases)
    IN  /\ r.kind = "DELETE_release" /\ r.pc = "delete"
        /\ releases' = out.rows
        /\ reqs' = [reqs EXCEPT ![s] = out.req]
        /\ UNCHANGED <<artists, clock>>

GetRelease(s, identifier) == GetStart(s, "GET_release", identifier)

GetReleaseBySlug(s) ==
    /\ reqs[s].kind = "GET_release" /\ reqs[s].pc = "byslug"
    /\ reqs' = [reqs EXCEPT ![s] = GetBySlugStep(reqs[s], releases)]
    /\ UNCHANGED <<artists, releases, clock>>

GetReleaseById(s) ==
    /\ reqs[s].kind = "GET_release" /\ reqs[s].pc = "byid"
    /\ reqs' = [reqs EXCEPT ![s] = GetByIdStep(reqs[s], releases)]
    /\ UNCHANGED <<artists, releases, clock>>

\* --------------------------------------------------------------- migration
\* The one-off scripts migrateSlugs (src/script.js for artists, the head of
\* src/migrate-release-slugs.js for releases).  Fields of the process: todo, the
\* fetched rows the for loop still has to give a slug to; run, how many times the
\* script has been started (history, read by no step).
MigrateKinds == {"MIGRATE_artists", "MIGRATE_releases"}

\* The table a script works on, as rows [id, slug, name]
MigTable(kind) ==
    IF kind = "MIGRATE_artists" THEN artists
    ELSE {[id |-> x.id, slug |-> x.slug, name |-> x.title] : x \in releases}

\* `if (!row.slug && row.name) { const slug = generateSlug(row.name); if (slug) {...} }`
NeedsSlug(x) == x.slug = Empty /\ x.name # Empty /\ generateSlug(x.name) # Empty

\* The script is started: ALTER TABLE ... ADD COLUMN IF NOT EXISTS slug TEXT leaves
\* the rows as they are (a new column reads as no slug)
MigrateStart(s, kind) ==
    /\ Free(s)
    /\ reqs' = [reqs EXCEPT ![s] =
            [IdleReq EXCEPT !.kind = kind, !.pc = "fetch",
                            !.run = IF reqs[s].kind = kind THEN reqs[s].run + 1 ELSE 1]]
    /\ UNCHANGED <<artists, releases, clock>>

\* The for loop up to its next await: the rows that need no slug are passed over;
\* for the next row that needs one (the rows come in the order SELECT * returned
\* them, which is any order) the uniqueness loop is entered; after the last row
\* the script ends.  The set of the positions the process may be in next.
MigrateAdvance(r, todo) ==
    IF todo = {}
    THEN {[r EXCEPT !.pc = "done", !.todo = {}, !.ent = NoEnt, !.slug = Empty,
                    !.uniqueSlug = Empty, !.counter = 0]}
    ELSE {[r EXCEPT !.pc = "unique", !.todo = todo \ {x}, !.ent = ArtistObj(x),
                    !.slug = generateSlug(x.name), !.uniqueSlug = generateSlug(x.name),
                    !.counter = 1] : x \in todo}

\* SELECT * FROM <table>, and the loop up to its first await
MigrateFetch(s) ==
    LET r == reqs[s]
    IN  /\ r.kind \in MigrateKinds /\ r.pc = "fetch"
        /\ \E q \in MigrateAdvance(r, {x \in MigTable(r.kind) : NeedsSlug(x)}) :
              reqs' = [reqs EXCEPT ![s] = q]
        /\ UNCHANGED <<artists, releases, clock>>

\* ensureUniqueSlug of the script: one query of the loop (always with AND id != $2)
MigrateUnique(s) ==
    /\ reqs[s].kind \in MigrateKinds /\ reqs[s].pc = "unique"
    /\ UniqueLoopStep(s, MigTable(reqs[s].kind), {})
    /\ UNCHANGED <<artists, releases, clock>>

\* Mutant: the UPDATE has no WHERE clause
UpdateSlug_NoWhere(rows, id, slug) == {[x EXCEPT !.slug = slug] : x \in rows}

\* UPDATE <table> SET slug = $1 WHERE id = $2
UpdateSlug(rows, id, slug) == {IF x.id = id THEN [x EXCEPT !.slug = slug] ELSE x : x \in rows}

\* Mutant: the script writes the slug it generated, not the one the loop returned
MigrateUpdate_BaseSlug(s) ==
    LET r == reqs[s]
    IN  /\ r.kind \in MigrateKinds /\ r.pc = "insert"
        /\ IF r.kind = "MIGRATE_artists"
           THEN artists' = UpdateSlug(artists, r.ent.id, r.slug) /\ releases' = releases
           ELSE releases' = UpdateSlug(releases, r.ent.id, r.slug) /\ artists' = artists
        /\ \E q \in MigrateAdvance(r, r.todo) : reqs' = [reqs EXCEPT ![s] = q]
        /\ UNCHANGED clock

\* The UPDATE of the row, and the loop up to its next await
MigrateUpdate(s) ==
    LET r == reqs[s]
    IN  /\ r.kind \in MigrateKinds /\ r.pc = "insert"
        /\ IF r.kind = "MIGRATE_artists"
           THEN artists' = UpdateSlug(artists, r.ent.id, r.uniqueSlug) /\ releases' = releases
           ELSE releases' = UpdateSlug(releases, r.ent.id, r.uniqueSlug) /\ artists' = artists
        /\ \E q \in MigrateAdvance(r, r.todo) : reqs' = [reqs EXCEPT ![s] = q]
        /\ UNCHANGED clock

\* ----------------------------------------------------------- store failure
\* The positions of a handler at which a pool.query is awaited
QueryPcs == {"select", "unique", "insert", "count", "delete", "byslug", "byid"}

\* Mutant: the failure is swallowed as in getArtists (`catch { return [] }`): the
\* query counts as having returned no row
StoreFailure_Masked(s) ==
    LET r == reqs[s]
    IN  /\ r.pc \in QueryPcs
        /\ reqs' = [reqs EXCEPT ![s] =
                IF r.pc = "unique" THEN [r EXCEPT !.pc = "insert", !.err = "store_failure"]
                ELSE IF r.pc = "count" THEN [r EXCEPT !.pc = "delete", !.err = "store_failure"]
                ELSE IF r.pc = "byslug" THEN [r EXCEPT !.pc = "byid", !.err = "store_failure"]
                ELSE [Respond(r, 404) EXCEPT !.err = "store_failure"]]
        /\ UNCHANGED <<artists, releases, clock>>

\* The awaited pool.query rejects: ensureUniqueSlug has no handler, saveArtist /
\* deleteArtist log and rethrow, and the route's catch block answers 500
StoreFailure(s) ==
    LET r == reqs[s]
    IN  /\ r.pc \in QueryPcs
        /\ reqs' = [reqs EXCEPT ![s] = [Respond(r, 500) EXCEPT !.err = "store_failure"]]
        /\ UNCHANGED <<artists, releases, clock>>

\* ------------------------------------------------------------------- clock
\* Date.now() advances between two requests, or does not (same millisecond)
Tick(max) ==
    /\ clock < max
    /\ clock' = clock + 1
    /\ UNCHANGED <<artists, releases, reqs>>

\* ------------------------------------------------------------------ inputs
Echo == <<"E","c","h","o">>
echo == <<"e","c","h","o">>
echo1 == <<"e","c","h","o","-","1">>
echo2 == <<"e","c","h","o","-","2">>
Bang == <<"!">>
Two == <<"2">>

\* Every id Date.now().toString() can produce up to clock value max
IdsUpTo(max) == {toString(n) : n \in 1..max}

\* ------------------------------------------------------- the whole program
Init ==
    /\ artists = {}
    /\ releases = {}
    /\ clock = 1
    /\ reqs = [s \in Slots |-> IdleReq]

\* A step of a request already in flight
Step(s) ==
    \/ PutArtistSelect(s)
    \/ ensureUniqueSlug(s)
    \/ saveArtist(s)
    \/ DeleteArtistCount(s)
    \/ deleteArtist(s)
    \/ GetArtistBySlug(s)
    \/ GetArtistById(s)
    \/ PutReleaseSelect(s)
    \/ ensureUniqueReleaseSlug(s)
    \/ saveRelease(s)
    \/ deleteRelease(s)
    \/ GetReleaseBySlug(s)
    \/ GetReleaseById(s)

\* Requests overlap freely: any free slot takes a new request at any time.
\* The guard race is played on the first artist.
RaceIds == {toString(1)}

Next ==
    \/ Tick(MaxClockRace)
    \/ \E s \in Slots :
        \/ \E name \in {Echo} : PostArtist(s, name)
        \/ \E id \in RaceIds : DeleteArtist(s, id)
        \/ \E title \in {Echo}, a \in RaceIds : PostRelease(s, title, a)
        \/ ensureUniqueSlug(s)
        \/ saveArtist(s)
        \/ DeleteArtistCount(s)
        \/ deleteArtist(s)
        \/ ensureUniqueReleaseSlug(s)
        \/ saveRelease(s)

Spec == Init /\ [][Next]_vars

\* Requests do not overlap: one connection, each request answered before the next.
\* Both collections, every handler that writes.
SeqNames == {Echo}
SeqIds == IdsUpTo(MaxClockSeq)
SeqArtistIds == SeqIds \cup {Undefined}

NextSeq ==
    \/ Tick(MaxClockSeq)
    \/ \E name \in SeqNames : PostArtist(1, name)
    \/ \E id \in SeqIds, name \in SeqNames \cup {Empty} : PutArtist(1, id, name)
    \/ \E id \in SeqIds : DeleteArtist(1, id)
    \/ \E title \in SeqNames, a \in SeqArtistIds : PostRelease(1, title, a)
    \/ \E id \in SeqIds, title \in SeqNames \cup {Empty}, a \in SeqArtistIds :
            PutRelease(1, id, title, a)
    \/ \E id \in SeqIds : DeleteRelease(1, id)
    \/ PutArtistSelect(1)
    \/ ensureUniqueSlug(1)
    \/ saveArtist(1)
    \/ DeleteArtistCount(1)
    \/ deleteArtist(1)
    \/ PutReleaseSelect(1)
    \/ ensureUniqueReleaseSlug(1)
    \/ saveRelease(1)
    \/ deleteRelease(1)

SpecSeq == Init /\ [][NextSeq]_vars

\* One collection, non-overlapping requests, a richer set of names: two that
\* differ in case only, two that differ in punctuation only.
ArtistNames == {Echo, echo, echo1, Bang, Empty}
ArtistIds == IdsUpTo(MaxClock)

NextArtists ==
    \/ Tick(MaxClock)
    \/ \E name \in ArtistNames : PostArtist(1, name)
    \/ \E id \in ArtistIds, name \in {Empty, Echo, Bang} : PutArtist(1, id, name)
    \/ \E id \in ArtistIds : DeleteArtist(1, id)
    \/ PutArtistSelect(1)
    \/ ensureUniqueSlug(1)
    \/ saveArtist(1)
    \/ DeleteArtistCount(1)
    \/ deleteArtist(1)

SpecArtists == Init /\ [][NextArtists]_vars

\* Identifier resolution: non-overlapping requests, names whose slug can equal an
\* id ("2") or is empty ("!"), GET by every id and by some slugs.  The identifier
\* of a GET is never empty: the route /api/<collection>/:identifier does not match
\* an empty path segment, and the pages link to `x.slug ? x.slug : x.id`.
ResolveNames == {Echo, Two, Bang}
ResolveIdents == SeqIds \cup {echo, echo1}

NextResolve ==
    \/ Tick(MaxClockSeq)
    \/ \E name \in ResolveNames : PostArtist(1, name)
    \/ \E id \in SeqIds : DeleteArtist(1, id)
    \/ \E x \in ResolveIdents : GetArtist(1, x)
    \/ \E title \in ResolveNames : PostRelease(1, title, Undefined)
    \/ \E id \in SeqIds : DeleteRelease(1, id)
    \/ \E x \in ResolveIdents : GetRelease(1, x)
    \/ ensureUniqueSlug(1)
    \/ saveArtist(1)
    \/ DeleteArtistCount(1)
    \/ deleteArtist(1)
    \/ GetArtistBySlug(1)
    \/ GetArtistById(1)
    \/ ensureUniqueReleaseSlug(1)
    \/ saveRelease(1)
    \/ deleteRelease(1)
    \/ GetReleaseBySlug(1)
    \/ GetReleaseById(1)

SpecResolve == Init /\ [][NextResolve]_vars

\* Updates and reads: non-overlapping requests on both collections, updates that
\* keep the name/title (no name, or the stored one) and updates that change it.
UpdateNames == {Empty, Echo, Bang}
UpdateIdents == SeqIds \cup {echo}

NextUpdate ==
    \/ Tick(MaxClockSeq)
    \/ PostArtist(1, Echo)
    \/ \E id \in SeqIds, name \in UpdateNames : PutArtist(1, id, name)
    \/ \E x \in UpdateIdents : GetArtist(1, x)
    \/ PostRelease(1, Echo, Undefined)
    \/ \E id \in SeqIds, title \in UpdateNames : PutRelease(1, id, title, Undefined)
    \/ \E x \in UpdateIdents : GetRelease(1, x)
    \/ PutArtistSelect(1)
    \/ ensureUniqueSlug(1)
    \/ saveArtist(1)
    \/ GetArtistBySlug(1)
    \/ GetArtistById(1)
    \/ PutReleaseSelect(1)
    \/ ensureUniqueReleaseSlug(1)
    \/ saveRelease(1)
    \/ GetReleaseBySlug(1)
    \/ GetReleaseById(1)

SpecUpdate == Init /\ [][NextUpdate]_vars

\* The normalizer on every short string: an upper and a lower case letter, a
\* digit, the underscore, a space, the hyphen and a punctuation character, in
\* every order.  The request body is drawn first; the POST handlers do the rest.
NormChars == {"A", "b", "2", "_", " ", "-", "!"}
NormInputs == UNION {[1..k -> NormChars] : k \in 0..MaxLen}

InitNormalize ==
    /\ artists = {}
    /\ releases = {}
    /\ clock = 1
    /\ \E name \in NormInputs :
          reqs = [s \in Slots |-> IF s = 1 THEN [IdleReq EXCEPT !.bodyName = name]
                                  ELSE IdleReq]

NextNormalize ==
    \/ PostArtist(1, reqs[1].bodyName)
    \/ PostRelease(1, reqs[1].bodyName, Undefined)
    \/ ensureUniqueSlug(1)
    \/ saveArtist(1)
    \/ ensureUniqueReleaseSlug(1)
    \/ saveRelease(1)

SpecNormalize == InitNormalize /\ [][NextNormalize]_vars

\* A store that may fail: non-overlapping requests, any awaited query may reject.
NextFail ==
    \/ Tick(MaxClockSeq)
    \/ PostArtist(1, Echo)
    \/ \E id \in SeqIds : DeleteArtist(1, id)
    \/ \E x \in UpdateIdents : GetArtist(1, x)
    \/ \E a \in SeqIds : PostRelease(1, Echo, a)
    \/ \E x \in UpdateIdents : GetRelease(1, x)
    \/ ensureUniqueSlug(1)
    \/ saveArtist(1)
    \/ DeleteArtistCount(1)
    \/ deleteArtist(1)
    \/ GetArtistBySlug(1)
    \/ GetArtistById(1)
    \/ ensureUniqueReleaseSlug(1)
    \/ saveRelease(1)
    \/ GetReleaseBySlug(1)
    \/ GetReleaseById(1)
    \/ StoreFailure(1)

SpecFail == Init /\ [][NextFail]_vars

\* A table that predates the slug column: up to MaxRows rows, none with a slug,
\* with names that repeat, that collide after normalization ("echo-1" against the
\* second "Echo"), that normalize to nothing ("!") or are empty.  Both tables hold
\* the same rows; one script runs at a time and nothing else writes.
LegacyNames == {Echo, echo1, Bang, Empty}
LegacyTables == UNION {[IdsUpTo(n) -> LegacyNames] : n \in 0..MaxRows}

InitMigrate ==
    /\ clock = 1
    /\ reqs = [s \in Slots |-> IdleReq]
    /\ \E f \in LegacyTables :
          /\ artists = {[id |-> i, slug |-> Empty, name |-> f[i]] : i \in DOMAIN f}
          /\ releases = {[id |-> i, slug |-> Empty, artistId |-> Empty, title |-> f[i]] :
                            i \in DOMAIN f}

MaxRuns == 2

NextMigrate ==
    \/ \E kind \in MigrateKinds : reqs[1].run < MaxRuns /\ MigrateStart(1, kind)
    \/ MigrateFetch(1)
    \/ MigrateUnique(1)
    \/ MigrateUpdate(1)

SpecMigrate == InitMigrate /\ [][NextMigrate]_vars

\* The server on tables that predate the slug column (initDB has added it, so the
\* old rows have no slug): non-overlapping updates of one old table.  Every name
\* normalizes to a non-empty string, so no update writes an empty slug next to
\* the missing ones.
UpdatedNames == {Echo, echo1}
UpdatedTables == UNION {[IdsUpTo(n) -> UpdatedNames] : n \in 1..MaxRows}

InitLegacy ==
    /\ clock = 1
    /\ reqs = [s \in Slots |-> IdleReq]
    /\ \E f \in UpdatedTables :
          \/ /\ artists = {[id |-> i, slug |-> Empty, name |-> f[i]] : i \in DOMAIN f}
             /\ releases = {}
          \/ /\ artists = {}
             /\ releases = {[id |-> i, slug |-> Empty, artistId |-> Empty, title |-> f[i]] :
                               i \in DOMAIN f}

NextLegacy ==
    \/ \E id \in IdsUpTo(MaxRows), name \in UpdatedNames \cup {Empty} : PutArtist(1, id, name)
    \/ \E id \in IdsUpTo(MaxRows), title \in UpdatedNames \cup {Empty} :
            PutRelease(1, id, title, Undefined)
    \/ PutArtistSelect(1)
    \/ ensureUniqueSlug(1)
    \/ saveArtist(1)
    \/ PutReleaseSelect(1)
    \/ ensureUniqueReleaseSlug(1)
    \/ saveRelease(1)

SpecLegacy == InitLegacy /\ [][NextLegacy]_vars

\* ------------------------------------------------------------ artist page
\* createArtistCard: `artist.slug ? `/artist/${artist.slug}` : `/artist/${artist.id}``;
\* the value is the path segment after /artist/.
ArtistCardUrl(artist) == IF artist.slug # Empty THEN artist.slug ELSE artist.id

\* getArtistId: the segment of window.location.pathname after /artist/
\* loadArtistPage up to `await fetch(`/api/artists/${artistId}`)`
loadArtistPage(s, artistId) ==
    /\ Free(s)
    /\ artistId # Empty
    /\ reqs' = [reqs EXCEPT ![s] =
            [IdleReq EXCEPT !.kind = "PAGE_artist", !.pc = "byslug", !.param = artistId]]
    /\ UNCHANGED <<artists, releases, clock>>

\* The fetch of /api/artists/:identifier: the two queries of the GET handler; a
\* response that is not ok ends the page with showError, an ok response is the
\* artist and the page goes on to fetch the releases.
PageFetchArtist(s) ==
    LET r == reqs[s]
        g == [r EXCEPT !.kind = "GET_artist"]
        a == IF r.pc = "byslug" THEN GetBySlugStep(g, artists) ELSE GetByIdStep(g, artists)
    IN  /\ r.kind = "PAGE_artist" /\ r.pc \in {"byslug", "byid"}
        /\ reqs' = [reqs EXCEPT ![s] =
                IF a.pc = "done" /\ a.status = 200
                THEN [r EXCEPT !.ent = a.ent, !.pc = "releases"]
                ELSE [a EXCEPT !.kind = "PAGE_artist"]]
        /\ UNCHANGED <<artists, releases, clock>>

\* `releases.filter(r => r.artistId === artistId)` over the answer of GET /api/releases
PageFetchReleases(s) ==
    LET r == reqs[s]
    IN  /\ r.kind = "PAGE_artist" /\ r.pc = "releases"
        /\ reqs' = [reqs EXCEPT ![s] =
                [RespondJson(r, r.ent) EXCEPT
                    !.list = {x \in releases : x.artistId = r.param}]]
        /\ UNCHANGED <<artists, releases, clock>>

\* The pages a visitor opens: the link of an artist card, or the artist's id URL
PageUrls == {ArtistCardUrl(a) : a \in artists} \cup {a.id : a \in artists}

NextPage ==
    \/ Tick(MaxClockSeq)
    \/ PostArtist(1, Echo)
    \/ \E a \in SeqArtistIds : PostRelease(1, Echo, a)
    \/ ensureUniqueSlug(1)
    \/ saveArtist(1)
    \/ ensureUniqueReleaseSlug(1)
    \/ saveRelease(1)
    \/ \E u \in PageUrls : loadArtistPage(1, u)
    \/ PageFetchArtist(1)
    \/ PageFetchReleases(1)

SpecPage == Init /\ [][NextPage]_vars

\* ------------------------------------------- key-value and flat-file variants
\* Both keep a collection as one array: kv.get('releases') / kv.set('releases', list)
\* and readFileSync / writeFileSync of releases.json.  In the specifications of
\* these variants the variables artists and releases hold that array.
KvArtist(id, name) == [id |-> id, name |-> name]
KvRelease(id, title, artistId) == [id |-> id, title |-> title, artistId |-> artistId]

KvPostKinds == {"KV_POST_artist", "KV_POST_release"}
FilePostKinds == {"FILE_POST_artist", "FILE_POST_release"}

\* The array a handler's collection is stored as
ListOf(kind) ==
    IF kind \in {"KV_POST_artist", "FILE_POST_artist"} THEN artists ELSE releases

\* newArtist / newRelease: id Date.now().toString(), `req.body.artistId || ''`
NewObject(kind, name, artistId) ==
    IF kind \in {"KV_POST_artist", "FILE_POST_artist"}
    THEN KvArtist(DateNowString, name)
    ELSE KvRelease(DateNowString, name, IF artistId = Undefined THEN Empty ELSE artistId)

\* POST /api/<collection> of the key-value variant up to `await getArtists()`
KvPost(s, kind, name, artistId) ==
    /\ Free(s)
    /\ Len(ListOf(kind)) < MaxList
    /\ reqs' = [reqs EXCEPT ![s] =
            [IdleReq EXCEPT !.kind = kind, !.pc = "get", !.bodyName = name,
                            !.bodyArtistId = artistId]]
    /\ UNCHANGED <<artists, releases, clock>>

KvPostArtist(s, name) == KvPost(s, "KV_POST_artist", name, Undefined)

KvPostRelease(s, title, artistId) == KvPost(s, "KV_POST_release", title, artistId)

\* kv.get answers; the handler builds the new object and pushes it on its copy
KvGet(s) ==
    LET r == reqs[s]
        new == NewObject(r.kind, r.bodyName, r.bodyArtistId)
    IN  /\ r.kind \in KvPostKinds /\ r.pc = "get"
        /\ reqs' = [reqs EXCEPT ![s] =
                [r EXCEPT !.ent = new, !.list = Append(ListOf(r.kind), new), !.pc = "set"]]
        /\ UNCHANGED <<artists, releases, clock>>

\* kv.get throws: getArtists / getReleases catch the error and return []
KvGetFails(s) ==
    LET r == reqs[s]
        new == NewObject(r.kind, r.bodyName, r.bodyArtistId)
    IN  /\ r.kind \in KvPostKinds /\ r.pc = "get"
        /\ reqs' = [reqs EXCEPT ![s] =
                [r EXCEPT !.ent = new, !.list = <<new>>, !.pc = "set"]]
        /\ UNCHANGED <<artists, releases, clock>>

\* kv.set(key, list) commits the handler's whole array; `res.json(newArtist)`
KvSet(s) ==
    LET r == reqs[s]
    IN  /\ r.kind \in KvPostKinds /\ r.pc = "set"
        /\ IF r.kind = "KV_POST_artist"
           THEN artists' = r.list /\ releases' = releases
           ELSE releases' = r.list /\ artists' = artists
        /\ reqs' = [reqs EXCEPT ![s] = RespondJson(r, r.ent)]
        /\ UNCHANGED clock

\* kv.set throws: saveArtists / saveReleases catch the error and return false; the
\* handler does not look at the value and goes on to `res.json(newArtist)`.  The
\* field err of the answered request records the failed save (history only).
KvSetFails(s) ==
    LET r == reqs[s]
    IN  /\ r.kind \in KvPostKinds /\ r.pc = "set"
        /\ reqs' = [reqs EXCEPT ![s] = [RespondJson(r, r.ent) EXCEPT !.err = "save_failed"]]
        /\ UNCHANGED <<artists, releases, clock>>

\* POST /api/<collection> of the flat-file variant: synchronous, one step.
\* `if (saveReleases(releases)) res.json(newRelease) else res.status(500)`;
\* saved is whether writeFileSync succeeded.
FilePost(s, kind, name, artistId, saved) ==
    LET r == [IdleReq EXCEPT !.kind = kind]
        new == NewObject(kind, name, artistId)
    IN  /\ Free(s)
        /\ Len(ListOf(kind)) < MaxList
        /\ IF ~saved THEN artists' = artists /\ releases' = releases
           ELSE IF kind = "FILE_POST_artist"
           THEN artists' = Append(artists, new) /\ releases' = releases
           ELSE releases' = Append(releases, new) /\ artists' = artists
        /\ reqs' = [reqs EXCEPT ![s] =
                IF saved THEN RespondJson(r, new)
                ELSE [Respond(r, 500) EXCEPT !.err = "save_failed"]]
        /\ UNCHANGED clock

FilePostArtist(s, name, saved) == FilePost(s, "FILE_POST_artist", name, Undefined, saved)

FilePostRelease(s, title, artistId, saved) ==
    FilePost(s, "FILE_POST_release", title, artistId, saved)

\* The key-value store before the first request: no key, `|| []`
InitKv ==
    /\ artists = <<>>
    /\ releases = <<>>
    /\ clock = 1
    /\ reqs = [s \in Slots |-> IdleReq]

\* Key-value variant, overlapping creates, a store that does not fail
NextKv ==
    \/ Tick(MaxClockRace)
    \/ \E s \in Slots :
        \/ KvPostArtist(s, Echo)
        \/ KvPostRelease(s, Echo, Undefined)
        \/ KvGet(s)
        \/ KvSet(s)

SpecKv == InitKv /\ [][NextKv]_vars

\* The two array-backed variants, non-overlapping creates, reads and writes of
\* the collection may fail
SaveNames == {Echo, Bang}

NextSave ==
    \/ Tick(MaxClockSeq)
    \/ \E name \in SaveNames : KvPostArtist(1, name)
    \/ \E title \in SaveNames, a \in SeqArtistIds : KvPostRelease(1, title, a)
    \/ KvGet(1)
    \/ KvGetFails(1)
    \/ KvSet(1)
    \/ KvSetFails(1)
    \/ \E name \in SaveNames, saved \in BOOLEAN : FilePostArtist(1, name, saved)
    \/ \E title \in SaveNames, a \in SeqArtistIds, saved \in BOOLEAN :
            FilePostRelease(1, title, a, saved)

SpecSave == InitKv /\ [][NextSave]_vars

\* ------------------------------------------- DELETE /api/artists/:id, variants
\* `artists.findIndex(a => a.id === req.params.id)`; 0 stands for -1
FindIndex(list, id) ==
    IF \E i \in DOMAIN list : list[i].id = id
    THEN CHOOSE i \in DOMAIN list :
            list[i].id = id /\ \A j \in 1..(i - 1) : list[j].id # id
    ELSE 0

\* `artists.splice(index, 1)`
Splice(list, index) ==
    [i \in 1..(Len(list) - 1) |-> IF i < index THEN list[i] ELSE list[i + 1]]

\* Flat-file variant: the artist is looked up first (404), then its releases
\* are counted (400), then the array is saved without it.
FileDeleteArtist(as, rs, id) ==
    LET index == FindIndex(as, id)
    IN  IF index = 0 THEN [status |-> 404, artists |-> as]
        ELSE IF \E i \in DOMAIN rs : rs[i].artistId = as[index].id
        THEN [status |-> 400, artists |-> as]
        ELSE [status |-> 200, artists |-> Splice(as, index)]

\* Key-value variant: the same handler over kv.get / kv.set
KvDeleteArtist(as, rs, id) ==
    LET index == FindIndex(as, id)
    IN  IF index = 0 THEN [status |-> 404, artists |-> as]
        ELSE IF \E i \in DOMAIN rs : rs[i].artistId = as[index].id
        THEN [status |-> 400, artists |-> as]
        ELSE [status |-> 200, artists |-> Splice(as, index)]

\* Document variant: `releasesCollection.find({ artistId: req.params.id })` first
\* (400), then deleteOne by id; deletedCount 0 answers 404.  The alternative
\* `{ _id: id }` of the filter compares a string with the ObjectId the store
\* assigned and matches no document.
DocDeleteArtist(as, rs, id) ==
    LET index == FindIndex(as, id)
    IN  IF \E i \in DOMAIN rs : rs[i].artistId = id
        THEN [status |-> 400, artists |-> as]
        ELSE IF index = 0 THEN [status |-> 404, artists |-> as]
        ELSE [status |-> 200, artists |-> Splice(as, index)]

\* Relational variant: the guard's COUNT (400), then DELETE ... WHERE id = $1 and
\* its rowCount (404 / 200); the table is the set of the array's elements.
RelDeleteArtist(as, rs, id) ==
    LET r == [IdleReq EXCEPT !.kind = "DELETE_artist", !.param = id]
    IN  IF GuardBlocks(Range(rs), id)
        THEN [status |-> 400, artists |-> as]
        ELSE [status |-> DeleteOutcome(r, Range(as)).req.status,
              artists |-> SelectSeq(as, LAMBDA a : a.id # id)]

\* One handler runs from request to response on the store
VariantDelete(s, kind, out) ==
    /\ Free(s)
    /\ artists' = out.artists
    /\ reqs' = [reqs EXCEPT ![s] = Respond([IdleReq EXCEPT !.kind = kind], out.status)]
    /\ UNCHANGED <<releases, clock>>

DeleteArtistFile(s, id) ==
    VariantDelete(s, "FILE_DELETE_artist", FileDeleteArtist(artists, releases, id))

DeleteArtistKv(s, id) ==
    VariantDelete(s, "KV_DELETE_artist", KvDeleteArtist(artists, releases, id))

DeleteArtistDoc(s, id) ==
    VariantDelete(s, "DOC_DELETE_artist", DocDeleteArtist(artists, releases, id))

DeleteArtistRel(s, id) ==
    VariantDelete(s, "REL_DELETE_artist", RelDeleteArtist(artists, releases, id))

\* Stores every variant can hold: artists with different ids in creation order,
\* releases whose artistId is '', the id of a stored artist or of none.
VariantIds == IdsUpTo(MaxRows)

RECURSIVE ArtistList(_, _)
ArtistList(n, present) ==
    IF n = 0 THEN <<>>
    ELSE ArtistList(n - 1, present)
            \o (IF n \in present THEN <<KvArtist(toString(n), Echo)>> ELSE <<>>)

VariantStores ==
    {[artists |-> ArtistList(MaxRows, present),
      releases |-> [i \in 1..MaxList |-> KvRelease(toString(i), Echo, f[i])]] :
        present \in SUBSET (1..MaxRows),
        f \in [1..MaxList -> VariantIds \cup {Empty}]}

InitVariants ==
    /\ \E st \in VariantStores : artists = st.artists /\ releases = st.releases
    /\ clock = 1
    /\ reqs = [s \in Slots |-> IdleReq]

NextVariants ==
    \E id \in VariantIds :
        \/ DeleteArtistFile(1, id)
        \/ DeleteArtistKv(1, id)
        \/ DeleteArtistDoc(1, id)
        \/ DeleteArtistRel(1, id)

SpecVariants == InitVariants /\ [][NextVariants]_vars

\* Addressing: non-overlapping requests whose path segment is an id or a slug; a
\* release may name its artist by the artist's slug (POST checks nothing).
AddressIdents == SeqIds \cup {echo}

NextAddress ==
    \/ Tick(MaxClockSeq)
    \/ PostArtist(1, Echo)
    \/ \E x \in AddressIdents : PutArtist(1, x, Bang)
    \/ \E x \in AddressIdents : DeleteArtist(1, x)
    \/ \E a \in {Undefined, echo} : PostRelease(1, Echo, a)
    \/ \E x \in AddressIdents : PutRelease(1, x, Bang, Undefined)
    \/ \E x \in AddressIdents : DeleteRelease(1, x)
    \/ PutArtistSelect(1)
    \/ ensureUniqueSlug(1)
    \/ saveArtist(1)
    \/ DeleteArtistCount(1)
    \/ deleteArtist(1)
    \/ PutReleaseSelect(1)
    \/ ensureUniqueReleaseSlug(1)
    \/ saveRelease(1)
    \/ deleteRelease(1)

SpecAddress == Init /\ [][NextAddress]_vars

\* ================================================================== claims
SaveKinds == {"POST_artist", "PUT_artist", "POST_release", "PUT_release"}

\* The table a request works on
TableOf(r) == IF r.kind \in ArtistKinds THEN artists ELSE releases

\* Some row other than the one with this id holds the slug
HeldByOther(rows, slug, id) == \E x \in rows : x.slug = slug /\ x.id # id

\* No two rows share a non-empty slug
UniqueNonEmptySlugs(rows) ==
    \A x, y \in rows : (x.slug = y.slug /\ x.slug # Empty) => x = y

\* C1: when requests do not overlap, no two entities of a collection share a
\* non-empty slug, and this is the uniqueness loop's doing: the slug a save is
\* about to write is held by no other row, so no write of a non-empty slug is
\* turned down by the store.
C1_UniqueSlugs ==
    /\ UniqueNonEmptySlugs(artists)
    /\ UniqueNonEmptySlugs(releases)
    /\ \A s \in Slots :
          LET r == reqs[s]
          IN  (r.kind \in SaveKinds /\ r.pc = "insert" /\ r.uniqueSlug # Empty)
              => ~HeldByOther(TableOf(r), r.uniqueSlug, r.ent.id)

C1_Witness ==
    /\ \E a, b \in artists : a.name = b.name /\ a.slug = echo /\ b.slug = echo1
    /\ \E a, b \in releases : a.title = b.title /\ a.slug = echo /\ b.slug = echo1

\* C2 (as claimed): a create that raced another create of the same name (both
\* finished their uniqueness loop with the same slug before either wrote) ends
\* with its entity stored under that slug.
C2_BothRacersStored ==
    \A s \in Slots :
        LET r == reqs[s]
        IN  (r.kind = "POST_artist" /\ r.pc = "done" /\ r.raced)
            => (r.status = 200 /\ r.ent.slug # Empty)

C2_RaceStep(s) ==
    LET r == reqs[s]
    IN  (r.kind = "POST_artist" /\ r.pc = "insert" /\ r.raced /\ reqs'[s].pc = "done")
        => IF HeldByOther(artists, r.uniqueSlug, r.ent.id)
           THEN reqs'[s].status = 500 /\ artists' = artists
           ELSE /\ reqs'[s].status = 200
                /\ ArtistRow([r.ent EXCEPT !.slug = r.uniqueSlug]) \in artists'

\* C2 (amended): both racing creates observe no collision, but the write that
\* finds the slug already stored under another id is turned down by the UNIQUE
\* constraint (500, nothing stored); the other write is stored; in no state do
\* two artists share a non-empty slug.
C2_SecondWriteRejected ==
    [][UniqueNonEmptySlugs(artists') /\ \A s \in Slots : C2_RaceStep(s)]_vars

C2_Witness ==
    \E s, t \in Slots :
        /\ s # t
        /\ reqs[s].kind = "POST_artist" /\ reqs[s].pc = "done" /\ reqs[s].raced
        /\ reqs[s].status = 500 /\ reqs[s].err = "unique_violation"
        /\ reqs[t].kind = "POST_artist" /\ reqs[t].pc = "done" /\ reqs[t].raced
        /\ reqs[t].status = 200 /\ reqs[t].ent.slug = echo
        /\ Cardinality({a \in artists : a.slug = echo}) = 1

C3_DeleteStep(s) ==
    LET r == reqs[s]
    IN  (/\ r.kind = "DELETE_artist" /\ r.pc = "delete" /\ reqs'[s].pc = "done"
         /\ SelectById(artists, r.param) # {}
         /\ CountReleasesOf(releases, r.param) > 0)
        => /\ reqs'[s].status = 200
           /\ SelectById(artists', r.param) = {}
           /\ releases' = releases
           /\ CountReleasesOf(releases', r.param) > 0

C3_InsertStep(s) ==
    LET r == reqs[s]
    IN  (/\ r.kind = "POST_release" /\ r.pc = "insert" /\ reqs'[s].pc = "done"
         /\ ~HeldByOther(releases, r.uniqueSlug, r.ent.id))
        => /\ reqs'[s].status = 200
           /\ ReleaseRow([r.ent EXCEPT !.slug = r.uniqueSlug]) \in releases'
           /\ artists' = artists

\* C3: a delete whose count query saw no release goes through even if a release
\* naming the artist has been committed since: the artist is removed, the answer
\* is 200, and the release stays, naming an artist that no longer exists.  The
\* release's write, for its part, is committed and answered 200 whether or not
\* the artist it names is (still) stored.
C3_GuardRace == [][\A s \in Slots : C3_DeleteStep(s) /\ C3_InsertStep(s)]_vars

C3_Witness ==
    \E s, t \in Slots :
        /\ reqs[s].kind = "DELETE_artist" /\ reqs[s].pc = "done"
        /\ reqs[s].status = 200 /\ reqs[s].raced
        /\ reqs[t].kind = "POST_release" /\ reqs[t].pc = "done" /\ reqs[t].status = 200
        /\ reqs[t].ent.artistId = reqs[s].param
        /\ ReleaseRow(reqs[t].ent) \in releases
        /\ SelectById(artists, reqs[s].param) = {}

C6_Step(s) ==
    LET r == reqs[s]
        blocked == CountReleasesOf(releases, r.param) > 0
    IN  (r.kind = "DELETE_artist" /\ reqs'[s] # r)
        => /\ (r.pc = "count" /\ blocked)
                => /\ reqs'[s].pc = "done" /\ reqs'[s].status = 400
                   /\ artists' = artists /\ releases' = releases
           /\ (r.pc = "count" /\ ~blocked)
                => /\ reqs'[s].pc = "delete"
                   /\ artists' = artists /\ releases' = releases
           /\ r.pc = "delete"
                => /\ ~blocked
                   /\ releases' = releases
                   /\ artists' = {a \in artists : a.id # r.param}
                   /\ reqs'[s].pc = "done"
                   /\ reqs'[s].status = IF \E a \in artists : a.id = r.param THEN 200 ELSE 404

\* C6: with non-overlapping requests, a delete of artist P answers 400 and changes
\* neither table when some release has artistId = P; when none has, the delete is
\* let through, removes exactly the artist P (200 when it exists) and changes no
\* release.
C6_GuardCorrect == [][\A s \in Slots : C6_Step(s)]_vars

C6_Witness ==
    \E s \in Slots :
        /\ reqs[s].kind = "DELETE_artist" /\ reqs[s].pc = "done" /\ reqs[s].status = 400
        /\ SelectById(artists, reqs[s].param) # {}
        /\ \E x \in releases : x.artistId = reqs[s].param

\* The row a response body stands for
RowOf(r) == IF r.kind \in ArtistKinds THEN ArtistRow(r.ent) ELSE ReleaseRow(r.ent)

GetKinds == {"GET_artist", "GET_release"}

\* C4: slug lookup has precedence.  Whenever a GET has answered and some entity of
\* the collection holds the requested identifier as its slug, the answer is that
\* entity, also when another entity has the identifier as its id.
C4_SlugPrecedence ==
    \A s \in Slots :
        LET r == reqs[s]
        IN  (r.kind \in GetKinds /\ r.pc = "done" /\ SelectBySlug(TableOf(r), r.param) # {})
            => /\ r.status = 200
               /\ r.ent.slug = r.param
               /\ RowOf(r) \in TableOf(r)

C4_Witness ==
    \E s \in Slots :
        /\ reqs[s].kind \in GetKinds /\ reqs[s].pc = "done" /\ reqs[s].status = 200
        /\ reqs[s].ent.slug = reqs[s].param
        /\ \E a \in TableOf(reqs[s]) : a.id = reqs[s].param /\ a.id # reqs[s].ent.id

\* C5: a GET answers 404 exactly when no entity has the identifier as slug and
\* none has it as id; otherwise it answers a stored entity that matches the
\* identifier by slug or by id.
C5_NotFoundIffBothFail ==
    \A s \in Slots :
        LET r == reqs[s]
        IN  (r.kind \in GetKinds /\ r.pc = "done")
            => /\ r.status \in {200, 404}
               /\ (r.status = 404) <=>
                      /\ SelectBySlug(TableOf(r), r.param) = {}
                      /\ SelectById(TableOf(r), r.param) = {}
               /\ (r.status = 200) =>
                      /\ RowOf(r) \in TableOf(r)
                      /\ (r.ent.slug = r.param \/ r.ent.id = r.param)

C5_Witness ==
    \E s \in Slots :
        /\ reqs[s].kind = "GET_artist" /\ reqs[s].pc = "done" /\ reqs[s].status = 200
        /\ reqs[s].ent.id = reqs[s].param /\ reqs[s].ent.slug # reqs[s].param
        /\ reqs[s].ent.slug # Empty

\* C7: self-exclusion.  When an artist that holds a non-empty slug is saved again,
\* the uniqueness loop ends with that very slug: the slug about to be written is
\* the slug the stored row has.
C7_SelfExclusion ==
    \A s \in Slots :
        LET r == reqs[s]
        IN  (r.kind = "PUT_artist" /\ r.pc = "insert" /\ r.ent.slug # Empty)
            => /\ r.uniqueSlug = r.ent.slug
               /\ \E a \in artists : a.id = r.ent.id /\ a.slug = r.uniqueSlug

C7_Witness ==
    \E s \in Slots :
        /\ reqs[s].kind = "PUT_artist" /\ reqs[s].pc = "insert"
        /\ reqs[s].ent.slug = echo /\ reqs[s].uniqueSlug = echo
        /\ Cardinality(artists) > 1

\* The k-th candidate of the loop: base, base-1, base-2, ...
Candidate(base, k) == IF k = 0 THEN base ELSE base \o <<"-">> \o toString(k)

C9_SluglessSaveSucceeds ==
    \A s \in Slots :
        LET r == reqs[s]
        IN  (r.kind \in {"POST_artist", "PUT_artist"} /\ r.pc = "insert" /\ r.uniqueSlug = Empty)
            => SaveOutcome(r, artists, ArtistRow([r.ent EXCEPT !.slug = Empty])).req.status = 200

\* C10 (as claimed): the id of a create that is about to write is held by no
\* stored artist, so the write adds a row and overwrites none.
C10_CreateGetsFreshId ==
    \A s \in Slots :
        LET r == reqs[s]
        IN  (r.kind = "POST_artist" /\ r.pc = "insert") => SelectById(artists, r.ent.id) = {}

\* The source field of a row: the artist's name, the release's title
SourceOf(x) == IF "name" \in DOMAIN x THEN x.name ELSE x.title

\* Every row of the table is in the table after the step with the slug it had
SlugsKept(rows, rowsAfter) ==
    \A x \in rows : \E y \in rowsAfter : y.id = x.id /\ y.slug = x.slug

C11_Step(s) ==
    LET r == reqs[s]
    IN  /\ (r.kind \in GetKinds /\ r.pc \in {"byslug", "byid"})
            => (artists' = artists /\ releases' = releases)
        /\ (/\ r.kind \in {"PUT_artist", "PUT_release"} /\ r.pc \in {"unique", "insert"}
            /\ \E x \in TableOf(r) : x.id = r.ent.id /\ SourceOf(x) = r.ent.name)
            => /\ SlugsKept(artists, artists') /\ SlugsKept(releases, releases')
               /\ reqs'[s].pc = "done" => reqs'[s].status = 200

C12_IdAlwaysResolves ==
    \A s \in Slots :
        LET r == reqs[s]
        IN  (r.kind \in GetKinds /\ r.pc = "done" /\ SelectById(TableOf(r), r.param) # {})
            => (r.status = 200 /\ r.ent.id = r.param)

\* C12 (amended): a GET whose identifier is the id of a stored entity E answers E
\* unless some entity of the collection holds that identifier as its slug; then
\* the answer is the holder of the slug (which may be another entity than E).
C12_IdResolvesUnlessShadowed ==
    \A s \in Slots :
        LET r == reqs[s]
        IN  (r.kind \in GetKinds /\ r.pc = "done" /\ SelectById(TableOf(r), r.param) # {})
            => /\ r.status = 200
               /\ RowOf(r) \in TableOf(r)
               /\ IF SelectBySlug(TableOf(r), r.param) = {}
                  THEN r.ent.id = r.param
                  ELSE r.ent.slug = r.param

\* A release is answered for its id while another release holds a slug
C12_Witness ==
    /\ reqs[1].kind = "GET_release" /\ reqs[1].pc = "done" /\ reqs[1].status = 200
    /\ reqs[1].ent.id = reqs[1].param /\ reqs[1].ent.slug # reqs[1].param
    /\ ReleaseRow(reqs[1].ent) \in releases
    /\ \E x \in releases : x.id # reqs[1].param /\ x.slug # Empty

C13_Step(s) ==
    LET r == reqs[s]
        q == reqs'[s]
    IN  (/\ r.kind \in GetKinds /\ r.pc \in {"byslug", "byid"}
         /\ q.pc = "done" /\ q.status = 200 /\ q.ent.slug = Empty)
        => /\ r.pc = "byid"
           /\ q.ent.id = r.param
           /\ SelectBySlug(TableOf(r), r.param) = {}

\* C13: fallback addressing.  A GET that answers an entity whose slug is empty got
\* it from the lookup by id, never from the lookup by slug, and the identifier of
\* the request is that entity's id.
C13_FallbackAddressing == [][\A s \in Slots : C13_Step(s)]_vars

\* An artist without slug has been answered for its id, next to an artist with a slug
C13_Witness ==
    /\ reqs[1].kind = "GET_artist" /\ reqs[1].pc = "done" /\ reqs[1].status = 200
    /\ reqs[1].ent.slug = Empty /\ reqs[1].ent.id = reqs[1].param
    /\ ArtistRow(reqs[1].ent) \in artists
    /\ \E x \in artists : x.slug # Empty

\* The entities of the table other than the one being written
Others(r) == {x \in TableOf(r) : x.id # r.ent.id}

\* In pc = "unique" the request is about to issue query number counter of its loop
C14_Step(s) ==
    LET r == reqs[s]
        q == reqs'[s]
    IN  (r.kind \in SaveKinds /\ r.pc = "unique" /\ q # r)
        => \/ /\ q.pc = "unique"
              /\ q.counter = r.counter + 1
              /\ r.counter <= Cardinality(Others(r))
           \/ /\ q.pc = "insert"
              /\ q.counter = r.counter
              /\ r.counter <= Cardinality(Others(r)) + 1

\* C14: the uniqueness loop terminates.  With non-overlapping requests every
\* iteration that does not return raises the counter by one, and the loop has
\* returned once it has issued (number of other entities) + 1 queries at most.
C14_LoopBounded == [][\A s \in Slots : C14_Step(s)]_vars

\* The bound is met: two other artists, three queries
C14_Witness ==
    /\ reqs[1].kind = "POST_artist" /\ reqs[1].pc = "insert"
    /\ reqs[1].counter = 3 /\ Cardinality(Others(reqs[1])) = 2

\* The normalizer of the collection a request works on
NormalizerOf(r, text) ==
    IF r.kind \in ArtistKinds THEN generateSlug(text) ELSE generateReleaseSlug(text)

\* A create that has normalized its name/title and not yet answered
Normalized(r) == r.kind \in {"POST_artist", "POST_release"} /\ r.pc \in {"unique", "insert"}

\* C15: the normalizer is idempotent.  The slug a create derived from its
\* name/title is normalized to itself.
C15_Idempotent ==
    \A s \in Slots :
        Normalized(reqs[s]) => NormalizerOf(reqs[s], reqs[s].slug) = reqs[s].slug

\* Hyphens inside and at the edges of the input, an underscore kept
C15_Witness ==
    /\ reqs[1].kind = "POST_artist" /\ reqs[1].pc = "unique"
    /\ reqs[1].ent.name = <<"-", " ", "A", "_">>
    /\ reqs[1].slug = <<"a", "_">>

\* Lowercase letters, digits and hyphens only; no hyphen first, last or doubled
WellFormedSlug(slug) ==
    /\ \A i \in DOMAIN slug :
          slug[i] \in Range(LowerChars) \cup Range(DigitChars) \cup {"-"}
    /\ slug # <<>> => (slug[1] # "-" /\ slug[Len(slug)] # "-")
    /\ \A i \in 1..(Len(slug) - 1) : ~(slug[i] = "-" /\ slug[i + 1] = "-")

\* C16 (as claimed): the slug a create derives from its name/title consists of
\* lowercase ASCII letters, digits and single hyphens only, with no hyphen at
\* either end.
C16_OnlyLettersDigitsHyphens ==
    \A s \in Slots : Normalized(reqs[s]) => WellFormedSlug(reqs[s].slug)

\* Two names differ only in letter case or in characters the normalizer strips
DifferOnlyInCaseOrPunctuation(a, b) ==
    a # b /\ RemoveSpecial(toLowerCase(a)) = RemoveSpecial(toLowerCase(b))

\* C17 (as claimed): of two sequential creates whose names differ only in case or
\* punctuation (and normalize to a slug), the second is stored next to the first
\* under a slug of its own.
C17_VariantGetsOwnSlug ==
    \A s \in Slots :
        LET r == reqs[s]
            out == SaveOutcome(r, artists, ArtistRow([r.ent EXCEPT !.slug = r.uniqueSlug]))
        IN  (r.kind = "POST_artist" /\ r.pc = "insert" /\ r.slug # Empty)
            => \A x \in artists :
                  DifferOnlyInCaseOrPunctuation(x.name, r.ent.name)
                  => /\ out.req.status = 200
                     /\ x \in out.rows
                     /\ r.uniqueSlug # x.slug

C18_Step(s) ==
    LET r == reqs[s]
        q == reqs'[s]
    IN  (q.err = "store_failure" /\ r.err # "store_failure")
        => /\ r.pc \in QueryPcs
           /\ q.pc = "done" /\ q.status = 500
           /\ artists' = artists /\ releases' = releases

\* C18: a store failure is propagated.  The step in which a query of a request
\* fails ends the request with 500 and changes no table; a request that has met a
\* failure is finished, so it neither retries nor goes on to its write or delete.
C18_FailurePropagated ==
    [][\A s \in Slots :
          /\ C18_Step(s)
          /\ reqs'[s].err = "store_failure" => reqs'[s].pc = "done"]_vars

\* A delete met a failure: the artist, named by no release, is still stored
C18_Witness ==
    /\ reqs[1].kind = "DELETE_artist" /\ reqs[1].pc = "done"
    /\ reqs[1].status = 500 /\ reqs[1].err = "store_failure"
    /\ SelectById(artists, reqs[1].param) # {}
    /\ CountReleasesOf(releases, reqs[1].param) = 0

ReleaseKinds == {"POST_release", "PUT_release", "DELETE_release", "GET_release"}

C19_Step(s) ==
    LET r == reqs[s]
        q == reqs'[s]
    IN  /\ (r.kind \in SaveKinds /\ r.pc = "unique" /\ q # r)
            => (q.pc = "insert" <=> ~HeldByOther(TableOf(r), r.uniqueSlug, r.ent.id))
        /\ (r.kind \in ArtistKinds /\ r.pc \notin {"idle", "done"}) => releases' = releases
        /\ (r.kind \in ReleaseKinds /\ r.pc \notin {"idle", "done"}) => artists' = artists

\* C19: collections are independent slug namespaces.  The uniqueness loop of an
\* artist returns exactly when no other artist holds the candidate, that of a
\* release exactly when no other release holds it, whatever the other table
\* holds; no step of an artist request changes a release, and conversely.
C19_IndependentNamespaces == [][\A s \in Slots : C19_Step(s)]_vars

\* An artist and a release hold the same slug, neither with a suffix
C19_Witness ==
    /\ \E a \in artists : a.slug = echo
    /\ \E x \in releases : x.slug = echo
    /\ reqs[1].pc = "done" /\ reqs[1].status = 200 /\ reqs[1].ent.slug = echo

\* C20 (as claimed): an update that supplies a name other than the stored one
\* writes a slug derived from the new name: the base its uniqueness loop started
\* from is the normalized new name.
C20_RenameRegeneratesSlug ==
    \A s \in Slots :
        LET r == reqs[s]
        IN  (/\ r.kind = "PUT_artist" /\ r.pc = "insert" /\ r.bodyName # Empty
             /\ \E x \in artists : x.id = r.ent.id /\ x.name # r.bodyName)
            => r.slug = generateSlug(r.bodyName)

C21_Step(s) ==
    LET r == reqs[s]
        q == reqs'[s]
    IN  (r.kind = "PUT_release" /\ r.pc = "insert" /\ q # r)
        => \A x \in releases :
              (x.id = r.ent.id /\ x.slug # Empty /\ x.title # r.ent.name)
              => /\ q.pc = "done" /\ q.status = 200
                 /\ \E y \in releases' :
                       y.id = x.id /\ y.slug = x.slug /\ y.title = r.ent.name

\* C21: a release's slug is never regenerated.  With non-overlapping requests, the
\* write of an update that changes the title of a release holding a non-empty
\* slug is answered 200 and stores the new title under the slug the release had.
C21_ReleaseSlugKept == [][\A s \in Slots : C21_Step(s)]_vars

\* A release created as "Echo" carries another title and still the slug echo
C21_Witness ==
    /\ reqs[1].kind = "PUT_release" /\ reqs[1].pc = "done" /\ reqs[1].status = 200
    /\ reqs[1].ent.name = Bang /\ reqs[1].ent.slug = echo
    /\ ReleaseRow(reqs[1].ent) \in releases

\* C23: migration postcondition.  When a script has ended, every row of its table
\* whose name/title normalizes to a non-empty string has a non-empty slug, every
\* other row has none, and no two rows share a slug - whichever order the rows
\* were taken in.
C23_MigrationPostcondition ==
    \A s \in Slots :
        LET r == reqs[s]
            T == MigTable(r.kind)
        IN  (r.kind \in MigrateKinds /\ r.pc = "done")
            => /\ \A x \in T : (x.slug # Empty) <=> (generateSlug(x.name) # Empty)
               /\ UniqueNonEmptySlugs(T)

\* The second "Echo" took echo-1 before the row named "echo-1" was reached
C23_Witness ==
    /\ reqs[1].kind = "MIGRATE_releases" /\ reqs[1].pc = "done"
    /\ \E x, y, z \in releases :
          /\ x.title = Echo /\ x.slug = echo
          /\ y.title = Echo /\ y.slug = echo1
          /\ z.title = echo1 /\ z.slug = Suffixed(echo1, 1)

C24_Step(s) ==
    LET r == reqs[s]
    IN  (r.kind \in MigrateKinds /\ r.pc \in {"fetch", "unique", "insert"})
        => /\ \A x \in artists : x.slug # Empty => x \in artists'
           /\ \A x \in releases : x.slug # Empty => x \in releases'
           /\ r.run > 1 => (artists' = artists /\ releases' = releases)

\* C24: migration preserves slugs and is idempotent.  No step of a script changes
\* a row that has a non-empty slug, and no step of a run started right after a
\* completed run of the same script changes any row.
C24_MigrationIdempotent == [][\A s \in Slots : C24_Step(s)]_vars

\* A second run has ended on a table in which the first run had resolved a collision
C24_Witness ==
    /\ reqs[1].kind = "MIGRATE_artists" /\ reqs[1].pc = "done" /\ reqs[1].run = 2
    /\ \E x, y \in artists : x.slug = echo /\ y.slug = echo1 /\ y.name = Echo
    /\ \E z \in artists : z.name = Bang /\ z.slug = Empty

C22_Step(s) ==
    LET r == reqs[s]
        q == reqs'[s]
        T == TableOf(r)
        after == IF r.kind \in ArtistKinds THEN artists' ELSE releases'
    IN  (/\ r.kind \in {"PUT_artist", "PUT_release"} /\ r.pc = "insert" /\ q # r
         /\ \E x \in T : x.id = r.ent.id /\ x.slug = Empty
         /\ NormalizerOf(r, r.ent.name) # Empty)
        => /\ q.pc = "done" /\ q.status = 200
           /\ \E y \in after :
                 /\ y.id = r.ent.id /\ y.slug # Empty
                 /\ SourceOf(y) = r.ent.name
                 /\ \E k \in 0..Cardinality(T) : y.slug = Candidate(NormalizerOf(r, r.ent.name), k)
                 /\ ~HeldByOther(after, y.slug, y.id)

\* C22: an update gives a slug to an entity that has none.  With non-overlapping
\* requests, the write of an update of an entity without slug whose name/title
\* (as updated) normalizes to a non-empty string is answered 200 and stores the
\* entity with a non-empty slug, a candidate of its normalized name/title, that
\* no other entity of the collection holds.
C22_UpdateAssignsSlug == [][\A s \in Slots : C22_Step(s)]_vars

\* A release without slug was updated and got echo-1, echo being taken; another
\* release still has no slug
C22_Witness ==
    /\ reqs[1].kind = "PUT_release" /\ reqs[1].pc = "done" /\ reqs[1].status = 200
    /\ reqs[1].ent.name = Echo /\ reqs[1].ent.slug = echo1
    /\ ReleaseRow(reqs[1].ent) \in releases
    /\ \E x \in releases : x.slug = echo
    /\ \E x \in releases : x.slug = Empty

WriteByIdKinds == {"PUT_artist", "PUT_release", "DELETE_artist", "DELETE_release"}

C25_Step(s) ==
    LET r == reqs[s]
        q == reqs'[s]
    IN  (/\ r.kind \in WriteByIdKinds /\ r.pc \notin {"idle", "done"} /\ q # r
         /\ \E x \in TableOf(r) : x.slug = r.param
         /\ \A x \in TableOf(r) : x.id # r.param)
        => /\ artists' = artists /\ releases' = releases
           /\ q.pc = "done" => q.status \in {400, 404}

\* C25: update and delete address by primary identifier only.  No step of a PUT
\* or DELETE whose path segment is the slug of an entity of its collection and
\* the id of none changes a table, and the request is answered 404 (400 when the
\* guard of an artist delete finds a release naming that string), never 200.
C25_WriteByIdOnly == [][\A s \in Slots : C25_Step(s)]_vars

\* An update addressed to the slug echo was answered 404; the artist is as it was
C25_Witness ==
    /\ reqs[1].kind = "PUT_artist" /\ reqs[1].pc = "done" /\ reqs[1].status = 404
    /\ reqs[1].param = echo
    /\ \E x \in artists : x.slug = echo /\ x.name = Echo

Resolves(x, rows) == \E a \in rows : a.id = x.artistId

C27_PageListsArtistReleases ==
    \A s \in Slots :
        (reqs[s].kind = "PAGE_artist" /\ reqs[s].pc = "done" /\ reqs[s].status = 200)
        => reqs[s].list = {x \in releases : x.artistId = reqs[s].ent.id}

\* C28: in the key-value variant two creates on one collection that both
\* answered success are both in the collection (stated for creates that took
\* different ids, so that the two entities can be told apart).
C28_AcknowledgedCreatesKept ==
    \A s, t \in Slots :
        (/\ reqs[s].kind \in KvPostKinds /\ reqs[t].kind = reqs[s].kind
         /\ reqs[s].pc = "done" /\ reqs[t].pc = "done"
         /\ reqs[s].status = 200 /\ reqs[t].status = 200
         /\ reqs[s].ent.id # reqs[t].ent.id)
        => reqs[s].ent \in Range(ListOf(reqs[s].kind))

\* C29: in the flat-file and key-value variants a create whose save of the
\* collection failed is answered with an error, never with the entity.
C29_FailedSaveAnswersError ==
    \A s \in Slots :
        (/\ reqs[s].kind \in KvPostKinds \cup FilePostKinds
         /\ reqs[s].pc = "done" /\ reqs[s].err = "save_failed")
        => reqs[s].status # 200

\* C30: on every store and for every requested id the four variants of
\* DELETE /api/artists/:id answer alike and leave the same artists.
C30_VariantsAgree ==
    \A id \in VariantIds :
        LET file == FileDeleteArtist(artists, releases, id)
        IN  /\ KvDeleteArtist(artists, releases, id) = file
            /\ DocDeleteArtist(artists, releases, id) = file
            /\ RelDeleteArtist(artists, releases, id) = file

====
